---- MODULE Spec2Model ----
(***************************************************************************)
(* A model of the numerical scheme engine of josiepy:                      *)
(*   - the Euler flux law (flux, eigs) and the Rusanov numerical flux,     *)
(*     applied to states drawn from bounded sets (specification Spec);     *)
(*   - the Runge-Kutta stage recursion RKDG.k driving the discontinuous    *)
(*     Galerkin advection scheme of the 1D advection test on a small       *)
(*     periodic mesh (specification SpecRK);                               *)
(*   - the helper functions of the tests (CFL, upwind, limiter, riemann2Q) *)
(*     applied to bounded inputs (specification SpecCalls);                *)
(*   - the time loop of test_twoscale (specification SpecDriver).          *)
(*                                                                         *)
(* Euler quantities are fixed-point numbers with one binary digit: every   *)
(* field value is an even integer, so the factor 0.5 of the code is the    *)
(* exact integer halving Half.  Advection quantities are exact rationals   *)
(* extended with NaN and the two infinities.                               *)
(***************************************************************************)
EXTENDS Integers, Sequences, FiniteSets, TLC

VARIABLES
    mode,        \* "euler": the flux-law calls; "rk": the advection solver
    op,          \* the function applied last ("idle" before the first call)
    args,        \* the arguments of that call
    ret,         \* the value it returned
    butcher,     \* the Butcher tableau of the scheme (a_s, b_s, c_s)
    dt,          \* the time step handed to solver.step
    t,           \* the solver's time
    mesh_cells,  \* mesh.cells: the values of every cell, ghosts included
    step_cells,  \* the trial copy of mesh.cells built by RKDG.k
    ks,          \* _ks: the cached residuals of the lower stages
    fluxes,      \* _fluxes: the residual being accumulated
    stack,       \* the frames of the recursive calls of RKDG.k
    solver_pc,   \* where solver.step stands: "idle" or "k"
    steps_done,  \* the number of completed solver.step calls
    init_cells,  \* history: mesh.cells as init_fun left them
    prev_cells,  \* history: mesh.cells when the current step began
    trace,       \* history: the operations of the current step, in order
    driver       \* the time loop of test_twoscale: position, t, dt, final_time

eulervars == << op, args, ret >>
rkvars == << butcher, dt, t, mesh_cells, step_cells, ks, fluxes, stack,
             solver_pc, steps_done, init_cells, prev_cells, trace >>
vars == << mode, eulervars, rkvars, driver >>

(***************************************************************************)
(* Bounds of the Euler inputs.                                             *)
(***************************************************************************)
MaxVel == 1     \* velocity components range over 2 * (-MaxVel .. MaxVel)
MaxSurf == 2    \* face surface lengths range over 1 .. MaxSurf

Velocities == { 2 * k : k \in -MaxVel .. MaxVel }
Densities == { 2, 4 }
Pressures == { 0, 2 }
SoundSpeeds == { 0, 2 }
Surfaces == 1 .. MaxSurf
\* unit face normals of a structured mesh: left, bottom, right, top
Normals == { <<-1, 0>>, <<0, -1>>, <<1, 0>>, <<0, 1>> }

Abs(x) == IF x < 0 THEN -x ELSE x
Max2(x, y) == IF x >= y THEN x ELSE y
\* 0.5 * x, exact on the even integers the fields range over
Half(x) == x \div 2

(***************************************************************************)
(* The Euler state Q: nine named fields, the first four conservative.      *)
(***************************************************************************)
QFields == { "rho", "rhoU", "rhoV", "rhoE", "rhoe", "U", "V", "p", "c" }
ConsFields == << "rho", "rhoU", "rhoV", "rhoE" >>

\* a full state from primitive values (ideal gas with gamma = 2:
\* rhoe = p / (gamma - 1), rhoE = rhoe + rho * (U^2 + V^2) / 2)
MakeQ(rho, U, V, p, c) ==
    [ rho |-> rho, rhoU |-> rho * U, rhoV |-> rho * V,
      rhoE |-> p + Half(rho * (U * U + V * V)), rhoe |-> p,
      U |-> U, V |-> V, p |-> p, c |-> c ]

States ==
    { MakeQ(rho, U, V, p, c) :
        rho \in Densities, U \in Velocities, V \in Velocities,
        p \in Pressures, c \in SoundSpeeds }

get_conservative(Q) == [ k \in 1 .. 4 |-> Q[ConsFields[k]] ]
zeros_like == [ f \in QFields |-> 0 ]
set_conservative(Q, cons) ==
    [ f \in QFields |->
        IF \E k \in 1 .. 4 : ConsFields[k] = f
        THEN cons[CHOOSE k \in 1 .. 4 : ConsFields[k] = f]
        ELSE Q[f] ]

(***************************************************************************)
(* problem.py: flux and eigs                                               *)
(***************************************************************************)
\* a plausible slip: the pressure left out of the energy flux
FluxCell_no_p_in_energy(Q) ==
    << << Q.rhoU, Q.rhoV >>,
       << Q.rhoU * Q.U + Q.p, Q.rhoU * Q.V >>,
       << Q.rhoV * Q.U, Q.rhoV * Q.V + Q.p >>,
       << Q.rhoE * Q.U, Q.rhoE * Q.V >> >>

\* the 4 x 2 flux tensor of one cell
FluxCell(Q) ==
    LET rhoUU == Q.rhoU * Q.U
        rhoUV == Q.rhoU * Q.V
        rhoVV == Q.rhoV * Q.V
        rhoVU == Q.rhoV * Q.U
    IN  << << Q.rhoU, Q.rhoV >>,
           << rhoUU + Q.p, rhoUV >>,
           << rhoVU, rhoVV + Q.p >>,
           << (Q.rhoE + Q.p) * Q.U, (Q.rhoE + Q.p) * Q.V >> >>

\* flux(state_array): the tensor of every cell of the array
flux(state_array) == [ i \in DOMAIN state_array |-> FluxCell(state_array[i]) ]

\* a plausible slip: UMINUS filled with Uplus
eigs_uminus_is_uplus(Q, n) ==
    LET U == Q.U * n[1] + Q.V * n[2]
        c == Q.c
    IN  [ UPLUS |-> U + c, UMINUS |-> U + c ]

\* eigs of one cell: the velocity (U, V) contracted with the normal, +- c
eigs(Q, n) ==
    LET U == Q.U * n[1] + Q.V * n[2]
        c == Q.c
        Uplus == U + c
        Uminus == U - c
    IN  [ UPLUS |-> Uplus, UMINUS |-> Uminus ]

(***************************************************************************)
(* rusanov.py: compute_sigma and F                                         *)
(***************************************************************************)
\* EulerScheme.compute_U_norm: the velocity projected on the face normal
compute_U_norm(Q, n) == Q.U * n[1] + Q.V * n[2]

\* a plausible slip: the absolute value of the velocity left out
compute_sigma_no_abs(U_L, U_R, c_L, c_R) == Max2(U_L + c_L, U_R + c_R)

\* a plausible slip: the maximum over the two sides left out
compute_sigma_left_only(U_L, U_R, c_L, c_R) == Abs(U_L) + c_L

compute_sigma(U_L, U_R, c_L, c_R) ==
    LET sigma_L == Abs(U_L) + c_L
        sigma_R == Abs(U_R) + c_R
    IN  Max2(sigma_L, sigma_R)

\* a plausible slip: the dissipative correction taken as Q_L - Q_R
RusanovF_flipped_DeltaQ(Q_L, Q_R, n, S) ==
    LET sigma == compute_sigma(compute_U_norm(Q_L, n), compute_U_norm(Q_R, n),
                               Q_L.c, Q_R.c)
        F_L == FluxCell(Q_L)
        F_R == FluxCell(Q_R)
    IN  set_conservative(zeros_like,
            [ k \in 1 .. 4 |->
                S * ( Half(F_L[k][1] + F_R[k][1]) * n[1]
                    + Half(F_L[k][2] + F_R[k][2]) * n[2]
                    - Half(sigma) * (Q_L[ConsFields[k]] - Q_R[ConsFields[k]]) ) ])

RusanovF(Q_L, Q_R, n, S) ==
    LET U_L == compute_U_norm(Q_L, n)
        U_R == compute_U_norm(Q_R, n)
        sigma == compute_sigma(U_L, U_R, Q_L.c, Q_R.c)
        F_L == FluxCell(Q_L)
        F_R == FluxCell(Q_R)
        DeltaF == [ k \in 1 .. 4 |->
                      Half(F_L[k][1] + F_R[k][1]) * n[1]
                    + Half(F_L[k][2] + F_R[k][2]) * n[2] ]
        Q_L_cons == get_conservative(Q_L)
        Q_R_cons == get_conservative(Q_R)
        DeltaQ == [ k \in 1 .. 4 |-> Half(sigma) * (Q_R_cons[k] - Q_L_cons[k]) ]
    IN  set_conservative(zeros_like,
                         [ k \in 1 .. 4 |-> S * (DeltaF[k] - DeltaQ[k]) ])

(***************************************************************************)
(* Floating-point numbers of the advection solver, modelled exactly: a     *)
(* finite value is a reduced fraction <<n, d>> with d > 0; NaN is <<0, 0>>, *)
(* +inf is <<1, 0>> and -inf is <<-1, 0>>.  Arithmetic follows IEEE 754 on *)
(* the non-finite values (inf - inf, 0 * inf and 0 / 0 are NaN; x / 0 is   *)
(* an infinity; every comparison with NaN is false).                       *)
(***************************************************************************)
NaN == << 0, 0 >>
PInf == << 1, 0 >>
NInf == << -1, 0 >>

RECURSIVE GCD(_, _)
GCD(a, b) == IF b = 0 THEN a ELSE GCD(b, a % b)

Frac(n, d) ==
    LET g == GCD(Abs(n), Abs(d))
        sgn == IF d < 0 THEN -1 ELSE 1
    IN  << (sgn * n) \div g, (sgn * d) \div g >>

Num(n) == << n, 1 >>
Zero == Num(0)
One == Num(1)

IsNaN(x) == x = NaN
IsInf(x) == x[2] = 0 /\ x[1] # 0
IsFinite(x) == x[2] > 0

RNeg(x) == << -x[1], x[2] >>

RAdd(x, y) ==
    IF IsNaN(x) \/ IsNaN(y) THEN NaN
    ELSE IF IsInf(x) THEN (IF IsInf(y) /\ y # x THEN NaN ELSE x)
    ELSE IF IsInf(y) THEN y
    ELSE LET g == GCD(x[2], y[2])
         IN  Frac(x[1] * (y[2] \div g) + y[1] * (x[2] \div g),
                  x[2] * (y[2] \div g))

RSub(x, y) == RAdd(x, RNeg(y))

Sign(n) == IF n < 0 THEN -1 ELSE IF n > 0 THEN 1 ELSE 0

RMul(x, y) ==
    IF IsNaN(x) \/ IsNaN(y) THEN NaN
    ELSE IF IsInf(x) \/ IsInf(y)
         THEN (IF x[1] = 0 \/ y[1] = 0 THEN NaN
               ELSE << Sign(x[1]) * Sign(y[1]), 0 >>)
    ELSE LET g1 == GCD(Abs(x[1]), y[2])
             g2 == GCD(Abs(y[1]), x[2])
         IN  Frac((x[1] \div g1) * (y[1] \div g2),
                  (x[2] \div g2) * (y[2] \div g1))

\* x / y; a zero divisor is the +0.0 that a difference of equal values gives
RDiv(x, y) ==
    IF IsNaN(x) \/ IsNaN(y) THEN NaN
    ELSE IF IsInf(y) THEN (IF IsInf(x) THEN NaN ELSE Zero)
    ELSE IF y[1] = 0 THEN (IF x[1] = 0 THEN NaN ELSE << Sign(x[1]), 0 >>)
    ELSE IF IsInf(x) THEN << Sign(x[1]) * Sign(y[1]), 0 >>
    ELSE RMul(x, Frac(y[2], y[1]))

RAbs(x) == << Abs(x[1]), x[2] >>

\* x < y as the floating-point comparison (false when either is NaN)
RLt(x, y) ==
    IF IsNaN(x) \/ IsNaN(y) THEN FALSE
    ELSE IF x = y THEN FALSE
    ELSE IF IsInf(x) THEN x = NInf
    ELSE IF IsInf(y) THEN y = PInf
    ELSE x[1] * y[2] < y[1] * x[2]

\* the builtin min(a, b, c): the first argument unless a later one is smaller
PyMin3(a, b, c) ==
    LET m1 == IF RLt(b, a) THEN b ELSE a
    IN  IF RLt(c, m1) THEN c ELSE m1

\* np.amin / np.amax over the values of a function: NaN propagates
NpAmin(f) ==
    IF \E i \in DOMAIN f : IsNaN(f[i]) THEN NaN
    ELSE f[CHOOSE i \in DOMAIN f : \A j \in DOMAIN f : ~ RLt(f[j], f[i])]

NpAmax(f) ==
    IF \E i \in DOMAIN f : IsNaN(f[i]) THEN NaN
    ELSE f[CHOOSE i \in DOMAIN f : \A j \in DOMAIN f : ~ RLt(f[i], f[j])]

(***************************************************************************)
(* The mesh of the 1D advection test: NumCellsX x 1 cells of the unit      *)
(* square, periodic along X, with one ghost cell at each X end.  Cells are *)
(* indexed 0 .. NumCellsX + 1 (0 and NumCellsX + 1 are the ghosts); every  *)
(* cell holds four degrees of freedom 0 .. 3 of the single field u.        *)
(***************************************************************************)
NumCellsX == 3

Interior == 1 .. NumCellsX
AllCells == 0 .. NumCellsX + 1
Dofs == 0 .. 3
Directions == << 0, 1, 2, 3 >>      \* left, bottom, right, top

\* mesh._x[1, 0] - mesh._x[0, 0] and mesh._y[0, 1] - mesh._y[0, 0]
dx == Frac(1, NumCellsX)
dy == One

\* advection velocity in x-direction
V == [ k \in 0 .. 1 |-> IF k = 0 THEN One ELSE Zero ]

\* neighs.normals and neighs.surfaces of the faces of a cell
normals(dir) ==
    [ k \in 0 .. 1 |->
        IF dir = 0 THEN (IF k = 0 THEN Num(-1) ELSE Zero)
        ELSE IF dir = 1 THEN (IF k = 0 THEN Zero ELSE Num(-1))
        ELSE IF dir = 2 THEN (IF k = 0 THEN One ELSE Zero)
        ELSE (IF k = 0 THEN Zero ELSE One) ]

surfaces(dir) == IF dir \in { 0, 2 } THEN dy ELSE dx

\* the bottom and top neighbours of the one row of cells lie outside the
\* mesh (no boundary condition is set there); upwind never reads them
OutsideCell == [ d \in Dofs |-> NaN ]

\* neighs.values of cell c in direction dir
neigh_values(cells, c, dir) ==
    IF dir = 0 THEN cells[c - 1]
    ELSE IF dir = 2 THEN cells[c + 1]
    ELSE OutsideCell

\* update_ghosts with the periodic pair (left, right)
update_ghosts(cells) ==
    [ c \in AllCells |->
        IF c = 0 THEN cells[NumCellsX]
        ELSE IF c = NumCellsX + 1 THEN cells[1]
        ELSE cells[c] ]

ZeroCell == [ d \in Dofs |-> Zero ]
ZeroField == [ c \in Interior |-> ZeroCell ]

RSum4(f) == RAdd(RAdd(RAdd(f[0], f[1]), f[2]), f[3])

(***************************************************************************)
(* The reference element of DGCell: bilinear Lagrange functions on         *)
(* [-1, 1]^2, degree of freedom 2 * ix + iy at the corner (ix, iy), so     *)
(* that 0, 1 lie on the left edge and 2, 3 on the right edge.              *)
(***************************************************************************)
Ix(d) == d \div 2
Iy(d) == d % 2
\* 1D mass and stiffness of the two linear functions on [-1, 1]
M1(i, j) == IF i = j THEN Frac(2, 3) ELSE Frac(1, 3)
K1(i, j) == IF i = 0 THEN Frac(-1, 2) ELSE Frac(1, 2)
M1inv(i, j) == IF i = j THEN Num(2) ELSE Num(-1)

M_ref(i, j) == RMul(M1(Ix(i), Ix(j)), M1(Iy(i), Iy(j)))

K_ref(i, j, k) ==
    IF k = 0 THEN RMul(K1(Ix(i), Ix(j)), M1(Iy(i), Iy(j)))
    ELSE RMul(M1(Ix(i), Ix(j)), K1(Iy(i), Iy(j)))

eM_ref_tab(dir, i, j) ==
    IF dir = 0 THEN (IF Ix(i) = 0 /\ Ix(j) = 0 THEN M1(Iy(i), Iy(j)) ELSE Zero)
    ELSE IF dir = 2 THEN (IF Ix(i) = 1 /\ Ix(j) = 1 THEN M1(Iy(i), Iy(j)) ELSE Zero)
    ELSE IF dir = 1 THEN (IF Iy(i) = 0 /\ Iy(j) = 0 THEN M1(Ix(i), Ix(j)) ELSE Zero)
    ELSE (IF Iy(i) = 1 /\ Iy(j) = 1 THEN M1(Ix(i), Ix(j)) ELSE Zero)

\* np.linalg.solve(M_ref, b) for one cell: the exact solution M_ref^-1 b
linalg_solve(b) ==
    [ i \in Dofs |->
        RSum4([ j \in Dofs |->
                  RMul(RMul(M1inv(Ix(i), Ix(j)), M1inv(Iy(i), Iy(j))), b[j]) ]) ]

\* SolverDG.jacob and SolverDG.jacob1D
J == RDiv(Num(4), RMul(dx, dy))
eJ(dir) == RDiv(surfaces(dir), Num(2))

(***************************************************************************)
(* test_advectionDG.py: flux, upwind, accumulate, limiter                  *)
(***************************************************************************)
\* flux(state_array) of one degree of freedom: the value times V
adv_flux(u) == [ k \in 0 .. 1 |-> RMul(V[k], u) ]

\* a plausible slip: the right face (direction 2) takes the neighbour's
\* value instead of the cell's own (the operands of the difference swapped)
upwind_downwind_right(values, neighs_values, dir) ==
    LET half == Frac(1, 2)
        fv(d) == adv_flux(values[d])[0]
        fn(d) == adv_flux(neighs_values[d])[0]
        F == [ d \in Dofs |-> [ k \in 0 .. 1 |->
                 IF dir = 0 /\ d \in { 0, 1 } /\ k = 0
                 THEN RSub(RMul(RAdd(fv(d), fn(d + 2)), half),
                           RMul(half, RSub(fv(d), fn(d + 2))))
                 ELSE IF dir = 2 /\ d \in { 2, 3 } /\ k = 0
                 THEN RSub(RMul(RAdd(fv(d), fn(d - 2)), half),
                           RMul(half, RSub(fv(d), fn(d - 2))))
                 ELSE Zero ] ]
        n == normals(dir)
    IN  [ d \in Dofs |-> RAdd(RMul(F[d][0], n[0]), RMul(F[d][1], n[1])) ]

\* upwind(cells, neighs) for one cell
upwind(values, neighs_values, dir) ==
    LET half == Frac(1, 2)
        fv(d) == adv_flux(values[d])[0]
        fn(d) == adv_flux(neighs_values[d])[0]
        F == [ d \in Dofs |-> [ k \in 0 .. 1 |->
                 IF dir = 0 /\ d \in { 0, 1 } /\ k = 0
                 THEN RSub(RMul(RAdd(fv(d), fn(d + 2)), half),
                           RMul(half, RSub(fv(d), fn(d + 2))))
                 ELSE IF dir = 2 /\ d \in { 2, 3 } /\ k = 0
                 THEN RSub(RMul(RAdd(fv(d), fn(d - 2)), half),
                           RMul(half, RSub(fn(d - 2), fv(d))))
                 ELSE Zero ] ]
        n == normals(dir)
    IN  [ d \in Dofs |-> RAdd(RMul(F[d][0], n[0]), RMul(F[d][1], n[1])) ]

\* SchemeAdvDG.accumulate: _fluxes += eJ J eM_ref_tab[direction] F(cells, neighs)
accumulate(fl, cells, dir) ==
    [ c \in Interior |->
        LET FS == upwind(cells[c], neigh_values(cells, c, dir), dir)
        IN  [ i \in Dofs |->
                RAdd(fl[c][i],
                     RSum4([ j \in Dofs |->
                               RMul(RMul(RMul(eJ(dir), J), eM_ref_tab(dir, i, j)),
                                    FS[j]) ])) ] ]

\* a plausible slip: the values clipped to [umin, umax] instead of scaled
\* about the cell average
limiter_cell_clip(v) ==
    [ d \in Dofs |-> IF RLt(v[d], Zero) THEN Zero ELSE IF RLt(One, v[d]) THEN One ELSE v[d] ]

\* SchemeAdvDG.limiter on one cell of the row y = 0
limiter_cell(v) ==
    LET uavg == RMul(Frac(1, 4), RSum4(v))
        umin == Zero
        umax == One
        minu == NpAmin(v)
        maxu == NpAmax(v)
        theta == PyMin3(One,
                        RAbs(RDiv(RSub(umax, uavg), RSub(maxu, uavg))),
                        RAbs(RDiv(RSub(umin, uavg), RSub(minu, uavg))))
    IN  [ d \in Dofs |-> RAdd(RMul(theta, RSub(v[d], uavg)), uavg) ]

\* SchemeAdvDG.limiter: every interior cell (the ghosts are not in values)
limiter(cells) ==
    [ c \in AllCells |-> IF c \in Interior THEN limiter_cell(cells[c]) ELSE cells[c] ]

\* SchemeAdvDG.limiter on cells.values indexed by (j, y): the loop visits
\* the cells (j, 0) only
limiter_values(values) ==
    [ q \in DOMAIN values |-> IF q[2] = 0 THEN limiter_cell(values[q]) ELSE values[q] ]

\* the volume term of RKDG.k: vec = K_ref F(values), scaled by 2/dx and 2/dy
vec2(values) ==
    LET vec(i, k) == RSum4([ j \in Dofs |-> RMul(K_ref(i, j, k), adv_flux(values[j])[k]) ])
    IN  [ i \in Dofs |->
            RAdd(RMul(RDiv(Num(2), dx), vec(i, 0)),
                 RMul(RDiv(Num(2), dy), vec(i, 1))) ]

\* a plausible slip: the volume term added instead of subtracted
volume_and_solve_plus(fl, cells) ==
    [ c \in Interior |->
        LET v2 == vec2(cells[c])
        IN  linalg_solve([ i \in Dofs |-> RAdd(fl[c][i], v2[i]) ]) ]

\* the tail of RKDG.k: _fluxes -= vec2; _fluxes = solve(M_ref, _fluxes)
volume_and_solve(fl, cells) ==
    [ c \in Interior |->
        LET v2 == vec2(cells[c])
        IN  linalg_solve([ i \in Dofs |-> RSub(fl[c][i], v2[i]) ]) ]

(***************************************************************************)
(* Specification Spec: the flux-law functions applied to bounded inputs.   *)
(***************************************************************************)
\* the cell positions of the array handed to flux: a ghost and an interior
CellPositions == { "ghost", "interior" }

\* the time loop of test_twoscale before the test runs
DriverNotStarted ==
    [ pc |-> "off", t |-> Zero, dt |-> Zero, final_time |-> Zero ]

\* the advection solver before it is constructed
RKNotBuilt ==
    /\ butcher = << >> /\ dt = Zero /\ t = Zero
    /\ mesh_cells = << >> /\ step_cells = << >> /\ ks = << >> /\ fluxes = << >>
    /\ stack = << >> /\ solver_pc = "idle" /\ steps_done = 0
    /\ init_cells = << >> /\ prev_cells = << >> /\ trace = << >>

InitEuler ==
    /\ mode = "euler"
    /\ op = "idle"
    /\ args = << >>
    /\ ret = << >>
    /\ RKNotBuilt
    /\ driver = DriverNotStarted

CallF ==
    /\ mode = "euler"
    /\ op = "idle"
    /\ \E Q_L \in States, Q_R \in States, n \in Normals, S \in Surfaces :
         /\ args' = [ Q_L |-> Q_L, Q_R |-> Q_R, normals |-> n, surfaces |-> S ]
         /\ ret' = RusanovF(Q_L, Q_R, n, S)
    /\ op' = "F"
    /\ UNCHANGED << mode, rkvars, driver >>

CallSigma ==
    /\ mode = "euler"
    /\ op = "idle"
    /\ \E U_L \in Velocities, U_R \in Velocities,
          c_L \in SoundSpeeds, c_R \in SoundSpeeds :
         /\ args' = [ U_L |-> U_L, U_R |-> U_R, c_L |-> c_L, c_R |-> c_R ]
         /\ ret' = compute_sigma(U_L, U_R, c_L, c_R)
    /\ op' = "compute_sigma"
    /\ UNCHANGED << mode, rkvars, driver >>

CallFlux ==
    /\ mode = "euler"
    /\ op = "idle"
    /\ \E state_array \in [ CellPositions -> States ] :
         /\ args' = [ state_array |-> state_array ]
         /\ ret' = flux(state_array)
    /\ op' = "flux"
    /\ UNCHANGED << mode, rkvars, driver >>

CallEigs ==
    /\ mode = "euler"
    /\ op = "idle"
    /\ \E Q \in States, n \in Normals :
         /\ args' = [ state_array |-> Q, normals |-> n ]
         /\ ret' = eigs(Q, n)
    /\ op' = "eigs"
    /\ UNCHANGED << mode, rkvars, driver >>

\* the four faces of a rectangular cell of size Sx x Sy, in the order
\* left, bottom, right, top: outward normal and surface length
CellFaces(Sx, Sy) ==
    << [ n |-> << -1, 0 >>, S |-> Sy ], [ n |-> << 0, -1 >>, S |-> Sx ],
       [ n |-> << 1, 0 >>, S |-> Sy ], [ n |-> << 0, 1 >>, S |-> Sx ] >>

\* Scheme.accumulate over every face of one cell whose neighbours all hold
\* Q_N (Q_N = Q is the uniform state; otherwise Q_N differs from Q in the
\* velocity U): the face fluxes summed into the residual of the cell
cell_residual(Q, Q_N, faces) ==
    [ k \in 1 .. 4 |->
        LET FS(i) == RusanovF(Q, Q_N, faces[i].n, faces[i].S)[ConsFields[k]]
        IN  FS(1) + FS(2) + FS(3) + FS(4) ]

CallAccumulate ==
    /\ mode = "euler"
    /\ op = "idle"
    /\ \E Q \in States, Q_N \in States, Sx \in Surfaces, Sy \in Surfaces :
         /\ Q.rho = Q_N.rho /\ Q.p = Q_N.p /\ Q.c = Q_N.c /\ Q.V = Q_N.V
         /\ args' = [ Q |-> Q, Q_N |-> Q_N, Sx |-> Sx, Sy |-> Sy ]
         /\ ret' = cell_residual(Q, Q_N, CellFaces(Sx, Sy))
    /\ op' = "accumulate"
    /\ UNCHANGED << mode, rkvars, driver >>

NextEuler == CallF \/ CallSigma \/ CallFlux \/ CallEigs \/ CallAccumulate

Spec == InitEuler /\ [][NextEuler]_vars

(***************************************************************************)
(* Butcher tableaux.  ButcherTableau keeps the flattened strictly lower    *)
(* triangle [a10, a20, a21, ...] and the stage times behind a leading 0    *)
(* (the first stage), so that c_s[step] and the slice of a_s taken by      *)
(* RKDG.k are defined for step = 0.                                        *)
(***************************************************************************)
ButcherTableau(a, b, c) ==
    [ a_s |-> << Zero >> \o a, b_s |-> b, c_s |-> << Zero >> \o c ]

RKDG2Alpha(alpha) ==
    ButcherTableau(<< alpha >>,
                   << RSub(One, RDiv(One, RMul(Num(2), alpha))),
                      RDiv(One, RMul(Num(2), alpha)) >>,
                   << alpha >>)

RKDG2 == RKDG2Alpha(One)

\* a three-stage tableau (Shu-Osher) handed to RK.__init__
SSPRK3 ==
    ButcherTableau(<< One, Frac(1, 4), Frac(1, 4) >>,
                   << Frac(1, 6), Frac(1, 6), Frac(2, 3) >>,
                   << One, Frac(1, 2) >>)

Tableaux == { RKDG2, RKDG2Alpha(Frac(2, 3)), SSPRK3 }

num_steps == Len(butcher.b_s)

\* arr[lo : hi] and arr[i] of a numpy array kept as a sequence
NpSlice(arr, lo, hi) ==
    LET top == IF hi < Len(arr) THEN hi ELSE Len(arr)
    IN  [ i \in 1 .. (IF top > lo THEN top - lo ELSE 0) |-> arr[lo + i] ]
NpIndex(arr, i) == arr[i + 1]

RECURSIVE RSumSeq(_)
RSumSeq(q) == IF q = << >> THEN Zero ELSE RAdd(Head(q), RSumSeq(Tail(q)))

(***************************************************************************)
(* RKDG.k, one action per statement group; a frame of the recursion holds  *)
(* the stage, the position in the body, the local time and the recursive   *)
(* calls still to make.                                                    *)
(***************************************************************************)
MaxTimeSteps == 2     \* solver.step is called at most MaxTimeSteps times

\* the stages RKDG.k(step) evaluates by calling itself, in order
KCalls_rederive(step) == [ j \in 1 .. step |-> j - 1 ]

KCalls(step) == IF step > 0 THEN << step - 1 >> ELSE << >>

NewFrame(step, time) ==
    [ step |-> step, pc |-> "enter", t |-> time, pending |-> KCalls(step), dir |-> 1 ]

Top == stack[Len(stack)]
SetTop(f) == [ stack EXCEPT ![Len(stack)] = f ]

\* np.einsum("...i,...j->...", a_s, _ks[..., :step]) at one degree of freedom
einsum_a_ks(a, kslots, step, c, d) ==
    RSumSeq([ n \in 1 .. Len(a) * step |->
                RMul(a[((n - 1) \div step) + 1], kslots[(n - 1) % step][c][d]) ])

\* the trial state: a copy of mesh.cells whose values are lowered by
\* dt * einsum(a_s[step : 2 * step + 1], _ks[..., :step])
trial_state(cs, tableau, kslots, step, h) ==
    LET a == NpSlice(tableau.a_s, step, 2 * step + 1)
    IN  [ c \in AllCells |->
            IF c \in Interior
            THEN [ d \in Dofs |->
                     RSub(cs[c][d], RMul(h, einsum_a_ks(a, kslots, step, c, d))) ]
            ELSE cs[c] ]

\* the state after the step: base - dt * sum_k b_s[k] * residual[k], the
\* residual of the last stage being _fluxes
combine(cs, tableau, kslots, fl, h) ==
    LET s == Len(tableau.b_s)
        residual(k) == IF k < s - 1 THEN kslots[k] ELSE fl
    IN  [ c \in AllCells |->
            IF c \in Interior
            THEN [ d \in Dofs |->
                     RSub(cs[c][d],
                          RMul(h, RSumSeq([ n \in 1 .. s |->
                                             RMul(tableau.b_s[n], residual(n - 1)[c][d]) ]))) ]
            ELSE cs[c] ]

FieldFinite(f) == \A c \in DOMAIN f : \A d \in Dofs : IsFinite(f[c][d])

\* a slot of _ks as np.empty leaves it: not yet written
Unwritten == [ c \in Interior |-> [ d \in Dofs |-> << 0, -1 >> ] ]

\* the values init_fun gives a cell (all four degrees of freedom alike)
InitValues == { Zero, One, NaN }
InitialFields ==
    { update_ghosts([ c \in AllCells |-> [ d \in Dofs |-> v[IF c \in Interior THEN c ELSE 1] ] ]) :
        v \in [ Interior -> InitValues ] }

\* dt = cfl * rLGLmin * dx / |V| with cfl = 0.1, and a larger step
TimeSteps == { RMul(Frac(1, 5), dx), RMul(Frac(1, 2), dx) }

InitRK ==
    /\ mode = "rk"
    /\ op = "idle" /\ args = << >> /\ ret = << >>
    /\ butcher \in Tableaux
    /\ dt \in TimeSteps
    /\ t = Zero
    /\ mesh_cells \in InitialFields
    /\ step_cells = << >>
    /\ ks = [ j \in 0 .. Len(butcher.b_s) - 2 |-> Unwritten ]
    /\ fluxes = ZeroField
    /\ stack = << >>
    /\ solver_pc = "idle"
    /\ steps_done = 0
    /\ init_cells = mesh_cells
    /\ prev_cells = mesh_cells
    /\ trace = << >>
    /\ driver = DriverNotStarted

\* solver.step(dt): ghosts refreshed, scratch zeroed, k(num_steps - 1) called
StepBegin ==
    /\ mode = "rk" /\ solver_pc = "idle" /\ steps_done < MaxTimeSteps
    /\ mesh_cells' = update_ghosts(mesh_cells)
    /\ prev_cells' = update_ghosts(mesh_cells)
    /\ fluxes' = ZeroField
    /\ stack' = << NewFrame(num_steps - 1, t) >>
    /\ trace' = << >>
    /\ solver_pc' = "k"
    /\ UNCHANGED << mode, eulervars, driver, init_cells, butcher, dt, t, step_cells, ks, steps_done >>

\* if step > 0: self.k(mesh, dt, t, step - 1)
KCall ==
    /\ mode = "rk" /\ stack # << >>
    /\ Top.pc = "enter" /\ Top.pending # << >>
    /\ stack' = Append(SetTop([ Top EXCEPT !.pending = Tail(@) ]),
                       NewFrame(Head(Top.pending), Top.t))
    /\ UNCHANGED << mode, eulervars, driver, init_cells, butcher, dt, t, mesh_cells, step_cells, ks,
                    fluxes, solver_pc, steps_done, prev_cells, trace >>

\* a plausible slip: _fluxes not zeroed after it is copied to _ks
KStore_without_fill ==
    /\ mode = "rk" /\ stack # << >>
    /\ Top.pc = "enter" /\ Top.pending = << >> /\ Top.step > 0
    /\ ks' = [ ks EXCEPT ![Top.step - 1] = fluxes ]
    /\ stack' = SetTop([ Top EXCEPT !.pc = "trial" ])
    /\ trace' = Append(trace, [ ev |-> "store", step |-> Top.step, slot |-> Top.step - 1 ])
    /\ UNCHANGED << mode, eulervars, driver, init_cells, butcher, dt, t, mesh_cells, step_cells,
                    fluxes, solver_pc, steps_done, prev_cells >>

\* self._ks[..., step - 1] = self._fluxes.copy(); self._fluxes.fill(0)
KStore ==
    /\ mode = "rk" /\ stack # << >>
    /\ Top.pc = "enter" /\ Top.pending = << >> /\ Top.step > 0
    /\ ks' = [ ks EXCEPT ![Top.step - 1] = fluxes ]
    /\ fluxes' = ZeroField
    /\ stack' = SetTop([ Top EXCEPT !.pc = "trial" ])
    /\ trace' = Append(trace, [ ev |-> "store", step |-> Top.step, slot |-> Top.step - 1 ])
    /\ UNCHANGED << mode, eulervars, driver, init_cells, butcher, dt, t, mesh_cells, step_cells,
                    solver_pc, steps_done, prev_cells >>

\* a plausible slip: the subtraction applied to mesh.cells itself (no copy)
KTrial_in_place ==
    /\ mode = "rk" /\ stack # << >>
    /\ \/ Top.pc = "trial"
       \/ Top.pc = "enter" /\ Top.pending = << >> /\ Top.step = 0
    /\ LET c == NpIndex(butcher.c_s, Top.step)
       IN  stack' = SetTop([ Top EXCEPT !.pc = "limiter",
                                        !.t = RAdd(Top.t, RMul(c, dt)) ])
    /\ step_cells' = trial_state(mesh_cells, butcher, ks, Top.step, dt)
    /\ mesh_cells' = trial_state(mesh_cells, butcher, ks, Top.step, dt)
    /\ trace' = Append(trace, [ ev |-> "trial", step |-> Top.step ])
    /\ UNCHANGED << mode, eulervars, driver, init_cells, butcher, dt, t, ks, fluxes,
                    solver_pc, steps_done, prev_cells >>

\* a plausible slip: the local time not advanced to the trial time
KTrial_time_not_advanced ==
    /\ mode = "rk" /\ stack # << >>
    /\ \/ Top.pc = "trial"
       \/ Top.pc = "enter" /\ Top.pending = << >> /\ Top.step = 0
    /\ stack' = SetTop([ Top EXCEPT !.pc = "limiter" ])
    /\ step_cells' = trial_state(mesh_cells, butcher, ks, Top.step, dt)
    /\ trace' = Append(trace, [ ev |-> "trial", step |-> Top.step ])
    /\ UNCHANGED << mode, eulervars, driver, init_cells, butcher, dt, t, mesh_cells, ks, fluxes,
                    solver_pc, steps_done, prev_cells >>

\* c, a_s; t += c * dt; step_cells = mesh.cells.copy(); step_cells.values -= ...
KTrial ==
    /\ mode = "rk" /\ stack # << >>
    /\ \/ Top.pc = "trial"
       \/ Top.pc = "enter" /\ Top.pending = << >> /\ Top.step = 0
    /\ LET c == NpIndex(butcher.c_s, Top.step)
       IN  stack' = SetTop([ Top EXCEPT !.pc = "limiter",
                                        !.t = RAdd(Top.t, RMul(c, dt)) ])
    /\ step_cells' = trial_state(mesh_cells, butcher, ks, Top.step, dt)
    /\ trace' = Append(trace, [ ev |-> "trial", step |-> Top.step ])
    /\ UNCHANGED << mode, eulervars, driver, init_cells, butcher, dt, t, mesh_cells, ks, fluxes,
                    solver_pc, steps_done, prev_cells >>

\* self.limiter(step_cells)
KLimiter ==
    /\ mode = "rk" /\ stack # << >>
    /\ Top.pc = "limiter"
    /\ step_cells' = limiter(step_cells)
    /\ stack' = SetTop([ Top EXCEPT !.pc = "update_ghosts" ])
    /\ trace' = Append(trace, [ ev |-> "limiter", step |-> Top.step ])
    /\ UNCHANGED << mode, eulervars, driver, init_cells, butcher, dt, t, mesh_cells, ks, fluxes,
                    solver_pc, steps_done, prev_cells >>

\* step_cells.update_ghosts(mesh.boundaries, t)
KUpdateGhosts ==
    /\ mode = "rk" /\ stack # << >>
    /\ Top.pc = "update_ghosts"
    /\ step_cells' = update_ghosts(step_cells)
    /\ stack' = SetTop([ Top EXCEPT !.pc = "pre_accumulate" ])
    /\ trace' = Append(trace, [ ev |-> "update_ghosts", step |-> Top.step, time |-> Top.t ])
    /\ UNCHANGED << mode, eulervars, driver, init_cells, butcher, dt, t, mesh_cells, ks, fluxes,
                    solver_pc, steps_done, prev_cells >>

\* self.pre_accumulate(step_cells, t): nothing to prepare for this scheme
KPreAccumulate ==
    /\ mode = "rk" /\ stack # << >>
    /\ Top.pc = "pre_accumulate"
    /\ stack' = SetTop([ Top EXCEPT !.pc = "accumulate", !.dir = 1 ])
    /\ trace' = Append(trace, [ ev |-> "pre_accumulate", step |-> Top.step ])
    /\ UNCHANGED << mode, eulervars, driver, init_cells, butcher, dt, t, mesh_cells, step_cells, ks,
                    fluxes, solver_pc, steps_done, prev_cells >>

\* for neighs in step_cells.neighbours: self.accumulate(step_cells, neighs, t)
KAccumulate ==
    /\ mode = "rk" /\ stack # << >>
    /\ Top.pc = "accumulate" /\ Top.dir <= Len(Directions)
    /\ fluxes' = accumulate(fluxes, step_cells, Directions[Top.dir])
    /\ stack' = SetTop([ Top EXCEPT !.dir = @ + 1 ])
    /\ trace' = Append(trace, [ ev |-> "accumulate", step |-> Top.step,
                                direction |-> Directions[Top.dir] ])
    /\ UNCHANGED << mode, eulervars, driver, init_cells, butcher, dt, t, mesh_cells, step_cells, ks,
                    solver_pc, steps_done, prev_cells >>

\* vec, vec2; self._fluxes -= vec2; self._fluxes = np.linalg.solve(...)
KVolume ==
    /\ mode = "rk" /\ stack # << >>
    /\ Top.pc = "accumulate" /\ Top.dir > Len(Directions)
    /\ fluxes' = volume_and_solve(fluxes, step_cells)
    /\ stack' = SetTop([ Top EXCEPT !.pc = "return" ])
    /\ trace' = Append(trace, [ ev |-> "residual", step |-> Top.step,
                                finite |-> FieldFinite(volume_and_solve(fluxes, step_cells)),
                                value |-> volume_and_solve(fluxes, step_cells) ])
    /\ UNCHANGED << mode, eulervars, driver, init_cells, butcher, dt, t, mesh_cells, step_cells, ks,
                    solver_pc, steps_done, prev_cells >>

\* RKDG.k returns to its caller
KReturn ==
    /\ mode = "rk" /\ stack # << >>
    /\ Top.pc = "return"
    /\ stack' = SubSeq(stack, 1, Len(stack) - 1)
    /\ UNCHANGED << mode, eulervars, driver, init_cells, butcher, dt, t, mesh_cells, step_cells, ks,
                    fluxes, solver_pc, steps_done, prev_cells, trace >>

\* the end of solver.step: the final combination written to mesh.cells
StepUpdate ==
    /\ mode = "rk" /\ solver_pc = "k" /\ stack = << >>
    /\ mesh_cells' = combine(mesh_cells, butcher, ks, fluxes, dt)
    /\ t' = RAdd(t, dt)
    /\ steps_done' = steps_done + 1
    /\ solver_pc' = "idle"
    /\ trace' = Append(trace, [ ev |-> "update" ])
    /\ UNCHANGED << mode, eulervars, driver, init_cells, butcher, dt, step_cells, ks, fluxes, stack,
                    prev_cells >>

NextRK ==
    \/ StepBegin \/ KCall \/ KStore \/ KTrial \/ KLimiter \/ KUpdateGhosts
    \/ KPreAccumulate \/ KAccumulate \/ KVolume \/ KReturn \/ StepUpdate

SpecRK == InitRK /\ [][NextRK]_vars

\* both parts: the flux-law calls and the advection solver
SpecAll == (InitEuler \/ InitRK) /\ [][NextEuler \/ NextRK]_vars

(***************************************************************************)
(* Specification SpecCalls: the helper functions of the tests applied to   *)
(* bounded inputs.                                                         *)
(***************************************************************************)
\* np.linalg.norm(V) of the velocity [1, 0]: its one non-zero component
norm_V == RAbs(V[0])

\* the lengths a face may have (0: a degenerate cell) and the CFL numbers
FaceSizes == { Zero, Frac(1, 2), One, Num(2) }
CFLValues == { Frac(1, 10), Frac(1, 2), One }
CFLCells == 1 .. 2

\* cells.surfaces of a structured row of cells of widths sx[c] and height sy
MeshSurfaces ==
    { [ c \in CFLCells |-> [ dir \in 0 .. 3 |-> IF dir \in { 0, 2 } THEN sy ELSE sx[c] ] ] :
        sx \in [ CFLCells -> FaceSizes ], sy \in FaceSizes }

\* np.min(cells.surfaces)
np_min_surfaces(surf) ==
    NpAmin([ q \in CFLCells \X (0 .. 3) |-> surf[q[1]][q[2]] ])

\* Upwind.CFL
CFL(surf, CFL_value) ==
    LET U_abs == norm_V
        dxmin == np_min_surfaces(surf)
    IN  RDiv(RMul(CFL_value, dxmin), U_abs)

(***************************************************************************)
(* test_twoscale.py: riemann2Q with the two linearized gases of the test.  *)
(***************************************************************************)
\* LinearizedGas(p0, rho0, c0): p(rho) = p0 + c0^2 (rho - rho0), the sound
\* velocity is the constant c0
LinearizedGas(p0, rho0, c0) == [ p0 |-> Num(p0), rho0 |-> Num(rho0), c0 |-> Num(c0) ]
eos_p(gas, rho) == RAdd(gas.p0, RMul(RMul(gas.c0, gas.c0), RSub(rho, gas.rho0)))
eos_sound_velocity(gas, rho) == gas.c0

\* TwoPhaseEOS(phase1 = LinearizedGas(1e5, 1.0, 3.0),
\*             phase2 = LinearizedGas(1e5, 1e3, 15.0))
TwoPhaseEOS ==
    [ PHASE1 |-> LinearizedGas(100000, 1, 3), PHASE2 |-> LinearizedGas(100000, 1000, 15) ]

\* the primitive Riemann states: two-phase mixtures (0 < alphabar < 1) with
\* a small-scale volume fraction ad < 1
RiemannStates ==
    [ alphabar : { Frac(1, 4), Frac(1, 2), Frac(3, 4) },
      rho1 : { One, Num(2) },
      rho2 : { Num(1000), Num(990) },
      U : { Zero, Frac(3, 20) },
      ad : { Zero, Frac(2, 5) } ]

\* a plausible slip: the factor (1 - ad) left out of arho2
riemann2Q_arho2_without_ad(state, eos) ==
    LET arho1 == RMul(RMul(state.alphabar, state.rho1), RSub(One, state.ad))
        arho2 == RMul(RSub(One, state.alphabar), state.rho2)
        arho1d == RMul(eos.PHASE1.rho0, state.ad)
        rho == RAdd(RAdd(arho1, arho2), arho1d)
        p1 == eos_p(eos.PHASE1, state.rho1)
        p2 == eos_p(eos.PHASE2, state.rho2)
        c1 == eos_sound_velocity(eos.PHASE1, state.rho1)
        c2 == eos_sound_velocity(eos.PHASE2, state.rho2)
    IN  [ arho |-> RMul(state.alphabar, rho), rhoU |-> RMul(rho, state.U), rhoV |-> Zero,
          rho |-> rho, U |-> state.U, V |-> Zero,
          P |-> RAdd(RMul(state.alphabar, p1), RMul(RSub(One, state.alphabar), p2)),
          c |-> [ sqrt |-> RDiv(RAdd(RMul(arho1, RMul(c1, c1)), RMul(arho2, RMul(c2, c2))), rho),
                  over |-> RSub(One, state.ad) ],
          abar |-> state.alphabar, arho1 |-> arho1, p1 |-> p1, c1 |-> c1,
          arho2 |-> arho2, p2 |-> p2, c2 |-> c2, arho1d |-> arho1d, ad |-> state.ad ]

\* riemann2Q(state, eos); the sound speed np.sqrt(x) / (1 - ad) is kept as
\* the pair of x and the divisor
riemann2Q(state, eos) ==
    LET arho1 == RMul(RMul(state.alphabar, state.rho1), RSub(One, state.ad))
        arho2 == RMul(RMul(RSub(One, state.alphabar), state.rho2), RSub(One, state.ad))
        arho1d == RMul(eos.PHASE1.rho0, state.ad)
        rho == RAdd(RAdd(arho1, arho2), arho1d)
        arho == RMul(state.alphabar, rho)
        rhoU == RMul(rho, state.U)
        rhoV == Zero
        p1 == eos_p(eos.PHASE1, state.rho1)
        p2 == eos_p(eos.PHASE2, state.rho2)
        c1 == eos_sound_velocity(eos.PHASE1, state.rho1)
        c2 == eos_sound_velocity(eos.PHASE2, state.rho2)
        P == RAdd(RMul(state.alphabar, p1), RMul(RSub(One, state.alphabar), p2))
        c == [ sqrt |-> RDiv(RAdd(RMul(arho1, RMul(c1, c1)), RMul(arho2, RMul(c2, c2))), rho),
               over |-> RSub(One, state.ad) ]
    IN  [ arho |-> arho, rhoU |-> rhoU, rhoV |-> rhoV, rho |-> rho, U |-> state.U,
          V |-> Zero, P |-> P, c |-> c, abar |-> state.alphabar, arho1 |-> arho1,
          p1 |-> p1, c1 |-> c1, arho2 |-> arho2, p2 |-> p2, c2 |-> c2,
          arho1d |-> arho1d, ad |-> state.ad ]

\* the pressure recomputed from the stored fields abar, arho1, arho2, ad:
\* the phase densities recovered from the partial densities, then the same
\* equation of state and the same mixture law
pressure_from_fields(Q, eos) ==
    LET rho1 == RDiv(Q.arho1, RMul(Q.abar, RSub(One, Q.ad)))
        rho2 == RDiv(Q.arho2, RMul(RSub(One, Q.abar), RSub(One, Q.ad)))
        p1 == eos_p(eos.PHASE1, rho1)
        p2 == eos_p(eos.PHASE2, rho2)
    IN  RAdd(RMul(Q.abar, p1), RMul(RSub(One, Q.abar), p2))

InitCalls ==
    /\ mode = "calls"
    /\ op = "idle"
    /\ args = << >>
    /\ ret = << >>
    /\ RKNotBuilt
    /\ driver = DriverNotStarted

CallCFL ==
    /\ mode = "calls"
    /\ op = "idle"
    /\ \E surf \in MeshSurfaces, CFL_value \in CFLValues :
         /\ args' = [ surfaces |-> surf, CFL_value |-> CFL_value ]
         /\ ret' = CFL(surf, CFL_value)
    /\ op' = "CFL"
    /\ UNCHANGED << mode, rkvars, driver >>

\* Q_left = riemann2Q(riemann_state.left, eos), then the pressure of the
\* state recomputed from its fields
CallRiemann2Q ==
    /\ mode = "calls"
    /\ op = "idle"
    /\ \E state \in RiemannStates :
         /\ args' = [ state |-> state, eos |-> TwoPhaseEOS ]
         /\ ret' = [ Q |-> riemann2Q(state, TwoPhaseEOS),
                     P_back |-> pressure_from_fields(riemann2Q(state, TwoPhaseEOS), TwoPhaseEOS) ]
    /\ op' = "riemann2Q"
    /\ UNCHANGED << mode, rkvars, driver >>

\* the values a degree of freedom of the advected field may take
DofValues == { Zero, Frac(1, 2), One }
CellValues == [ Dofs -> DofValues ]

\* upwind on the two sides of a shared X-face (cell i to the left of cell
\* i + 1) and, for cell i, on its bottom and top faces
CallUpwind ==
    /\ mode = "calls"
    /\ op = "idle"
    /\ \E values_i \in CellValues, values_i1 \in CellValues :
         /\ args' = [ values_i |-> values_i, values_i1 |-> values_i1 ]
         /\ ret' = [ dir \in 0 .. 3 |->
                       IF dir = 2 THEN upwind(values_i, values_i1, 2)
                       ELSE IF dir = 0 THEN upwind(values_i1, values_i, 0)
                       ELSE upwind(values_i, OutsideCell, dir) ]
    /\ op' = "upwind"
    /\ UNCHANGED << mode, rkvars, driver >>

\* the values handed to the limiter, inside and outside [umin, umax]
LimiterDofValues == { Frac(-1, 2), Zero, Frac(1, 2), One, Frac(3, 2) }
\* the cells of the second row (y = 1) of the array
UpperRowCells ==
    { [ d \in Dofs |-> Zero ],
      [ d \in Dofs |-> IF d = 0 THEN Frac(3, 2) ELSE IF d = 1 THEN Frac(-1, 2)
                        ELSE IF d = 2 THEN Zero ELSE One ],
      [ d \in Dofs |-> IF d < 2 THEN Num(2) ELSE Num(-1) ] }

\* self.limiter(cells) on an array of 1 x 2 cells
CallLimiter ==
    /\ mode = "calls"
    /\ op = "idle"
    /\ \E lower \in [ Dofs -> LimiterDofValues ], upper \in UpperRowCells :
         LET values == [ q \in { << 0, 0 >>, << 0, 1 >> } |->
                           IF q[2] = 0 THEN lower ELSE upper ]
         IN  /\ args' = [ values |-> values ]
             /\ ret' = limiter_values(values)
    /\ op' = "limiter"
    /\ UNCHANGED << mode, rkvars, driver >>

NextCalls == CallCFL \/ CallRiemann2Q \/ CallUpwind \/ CallLimiter

SpecCalls == InitCalls /\ [][NextCalls]_vars

(***************************************************************************)
(* Specification SpecDriver: the time loop of test_twoscale.  The time     *)
(* step scheme.CFL returns depends on the state of the mesh; it is any of  *)
(* DriverSteps.  solver.step(dt) advances the mesh and returns.            *)
(***************************************************************************)
MaxFinalTime == 2     \* final_time ranges over 0, 1/2, .. MaxFinalTime

FinalTimes == { Frac(k, 2) : k \in 0 .. 2 * MaxFinalTime }
DriverSteps == { NaN, Zero, Frac(1, 2), One, Frac(3, 2), PInf }

\* x <= y as the floating-point comparison (false when either is NaN)
RLe(x, y) == ~ IsNaN(x) /\ ~ IsNaN(y) /\ (x = y \/ RLt(x, y))

\* a plausible slip: the loop stops as soon as t reaches final_time
LoopCondition_strict(time, final_time) == RLt(time, final_time)

\* while t <= final_time
LoopCondition(time, final_time) == RLe(time, final_time)

InitDriver ==
    /\ mode = "driver"
    /\ op = "idle" /\ args = << >> /\ ret = << >>
    /\ RKNotBuilt
    /\ \E final_time \in FinalTimes, h \in DriverSteps :
         driver = [ pc |-> "while", t |-> Zero, dt |-> h, final_time |-> final_time ]

\* while t <= final_time: ... ; after the loop: assert t >= final_time
DriverWhile ==
    /\ mode = "driver" /\ driver.pc = "while"
    /\ driver' = [ driver EXCEPT !.pc =
                     IF LoopCondition(driver.t, driver.final_time) THEN "CFL"
                     ELSE IF RLe(driver.final_time, driver.t) THEN "done"
                     ELSE "AssertionError" ]
    /\ UNCHANGED << mode, eulervars, rkvars >>

\* dt = scheme.CFL(cells, CFL)
DriverCFL ==
    /\ mode = "driver" /\ driver.pc = "CFL"
    /\ \E h \in DriverSteps : driver' = [ driver EXCEPT !.pc = "assert", !.dt = h ]
    /\ UNCHANGED << mode, eulervars, rkvars >>

\* assert ~np.isnan(dt)
DriverAssert ==
    /\ mode = "driver" /\ driver.pc = "assert"
    /\ driver' = [ driver EXCEPT !.pc = IF ~ IsNaN(driver.dt) THEN "step"
                                                               ELSE "AssertionError" ]
    /\ UNCHANGED << mode, eulervars, rkvars >>

\* solver.step(dt); t += dt
DriverStep ==
    /\ mode = "driver" /\ driver.pc = "step"
    /\ driver' = [ driver EXCEPT !.pc = "while", !.t = RAdd(driver.t, driver.dt) ]
    /\ UNCHANGED << mode, eulervars, rkvars >>

NextDriver == DriverWhile \/ DriverCFL \/ DriverAssert \/ DriverStep

\* the test keeps running until it ends
SpecDriver == InitDriver /\ [][NextDriver]_vars /\ WF_vars(NextDriver)

(***************************************************************************)
(* Claims on the flux-law functions (checked under Spec).                  *)
(***************************************************************************)
Neg2(n) == << -n[1], -n[2] >>

\* C1: the Rusanov flux of (left, right, n) is, in every conservative
\* component, the negation of the flux of (right, left, -n), for every pair
\* of states, every normal and every surface length.
C1_Antisymmetry ==
    op = "F" =>
        LET rev == RusanovF(args.Q_R, args.Q_L, Neg2(args.normals), args.surfaces)
        IN  \A k \in 1 .. 4 : ret[ConsFields[k]] = - rev[ConsFields[k]]

\* a face between two different states whose flux has a non-zero dissipative
\* part and non-zero components
C1_Witness ==
    /\ op = "F"
    /\ args.Q_L.rho # args.Q_R.rho
    /\ args.Q_L.U # args.Q_R.U
    /\ Abs(compute_U_norm(args.Q_L, args.normals)) + args.Q_L.c
         # Abs(compute_U_norm(args.Q_R, args.normals)) + args.Q_R.c
    /\ \A k \in 1 .. 4 : ret[ConsFields[k]] # 0

\* C2: with identical left and right inputs compute_sigma returns |U| + c.
C2_SigmaIdentical ==
    (op = "compute_sigma" /\ args.U_L = args.U_R /\ args.c_L = args.c_R) =>
        ret = Abs(args.U_L) + args.c_L

\* identical inputs with a negative velocity and a non-zero sound speed
C2_Witness ==
    /\ op = "compute_sigma"
    /\ args.U_L = args.U_R /\ args.c_L = args.c_R
    /\ args.U_L < 0 /\ args.c_L > 0
    /\ ret = args.c_L - args.U_L

\* C3: the conservative sub-range of the array returned by Rusanov.F is
\* surface_length * (0.5 (F(left) + F(right)) . n
\*                   - 0.5 sigma (Q_right,cons - Q_left,cons))
\* with sigma = max(|U_n,L| + c_L, |U_n,R| + c_R), U_n the velocity
\* projected on the normal.
C3_RusanovFormula ==
    op = "F" =>
        LET L == args.Q_L
            R == args.Q_R
            n == args.normals
            UnL == L.U * n[1] + L.V * n[2]
            UnR == R.U * n[1] + R.V * n[2]
            sL == Abs(UnL) + L.c
            sR == Abs(UnR) + R.c
            sigma == IF sL > sR THEN sL ELSE sR
            FL == FluxCell(L)
            FR == FluxCell(R)
        IN  \A k \in 1 .. 4 :
                ret[ConsFields[k]] =
                    args.surfaces *
                      ( ( Half(FL[k][1] + FR[k][1]) * n[1]
                        + Half(FL[k][2] + FR[k][2]) * n[2] )
                      - Half(sigma) * (R[ConsFields[k]] - L[ConsFields[k]]) )

\* a face across which every conservative variable jumps, with a surface
\* length other than 1 and a non-zero wave speed
C3_Witness ==
    /\ op = "F"
    /\ \A k \in 1 .. 4 : args.Q_L[ConsFields[k]] # args.Q_R[ConsFields[k]]
    /\ args.surfaces > 1
    /\ args.Q_L.c > 0
    /\ ret.rho # 0 /\ ret.rhoE # 0

\* C4: flux returns, for every cell, the tensor
\* [rhoU, rhoV; rhoU U + p, rhoU V; rhoV U, rhoV V + p; (rhoE + p) U,
\* (rhoE + p) V] of that cell's own fields, so cells holding equal
\* (rhoU, rhoV, rhoE, U, V, p) get equal tensors whatever their position.
FluxInputs == { "rhoU", "rhoV", "rhoE", "U", "V", "p" }

C4_EulerFlux ==
    op = "flux" =>
        /\ \A i \in CellPositions :
             LET q == args.state_array[i]
             IN  ret[i] = << << q.rhoU, q.rhoV >>,
                             << q.rhoU * q.U + q.p, q.rhoU * q.V >>,
                             << q.rhoV * q.U, q.rhoV * q.V + q.p >>,
                             << (q.rhoE + q.p) * q.U, (q.rhoE + q.p) * q.V >> >>
        /\ \A i, j \in CellPositions :
             (\A f \in FluxInputs : args.state_array[i][f] = args.state_array[j][f])
                 => ret[i] = ret[j]

\* a ghost and an interior cell that agree on the six flux inputs (and
\* differ in the sound speed), moving in both directions under pressure
C4_Witness ==
    /\ op = "flux"
    /\ \A f \in FluxInputs :
         args.state_array["ghost"][f] = args.state_array["interior"][f]
    /\ args.state_array["ghost"].c # args.state_array["interior"].c
    /\ args.state_array["ghost"].U # 0
    /\ args.state_array["ghost"].V # 0
    /\ args.state_array["ghost"].p # 0
    /\ ret["ghost"] = ret["interior"]

\* C5: eigs returns exactly two eigenvalues per cell, UPLUS = U_n + c and
\* UMINUS = U_n - c, U_n the velocity projected on the normal; U_n itself
\* is not among the returned values.
C5_Eigs ==
    op = "eigs" =>
        LET Un == args.state_array.U * args.normals[1]
                  + args.state_array.V * args.normals[2]
            c == args.state_array.c
        IN  /\ DOMAIN ret = { "UPLUS", "UMINUS" }
            /\ ret.UPLUS = Un + c
            /\ ret.UMINUS = Un - c
            /\ c # 0 => \A f \in DOMAIN ret : ret[f] # Un

\* a moving cell with a non-zero sound speed: three distinct eigenvalues
\* exist and two are returned
C5_Witness ==
    /\ op = "eigs"
    /\ args.state_array.c > 0
    /\ args.state_array.V * args.normals[2] < 0
    /\ ret.UPLUS # ret.UMINUS
    /\ ret.UPLUS = 0

\* the wave speed bound Rusanov.F computes for the face of its arguments
SigmaOfF ==
    compute_sigma(compute_U_norm(args.Q_L, args.normals),
                  compute_U_norm(args.Q_R, args.normals), args.Q_L.c, args.Q_R.c)

AtRest(Q) == Q.U = 0 /\ Q.V = 0

Uniform(cs) == \A c \in DOMAIN cs : \A d \in Dofs : cs[c][d] = cs[1][0]

\* C6: on a state uniform over all cells (interior and ghost) the residual
\* accumulated over all face directions of a closed cell is zero, so one
\* full Runge-Kutta step leaves every cell's state unchanged.
C6_UniformState ==
    /\ (mode = "euler" /\ op = "accumulate" /\ args.Q = args.Q_N) =>
           \A k \in 1 .. 4 : ret[k] = 0
    /\ (mode = "rk" /\ Uniform(prev_cells) /\ FieldFinite(prev_cells)) =>
           /\ (stack # << >> /\ Top.pc = "return") => fluxes = ZeroField
           /\ (solver_pc = "idle" /\ steps_done > 0) => mesh_cells = prev_cells

\* a full three-stage step taken on a uniform non-zero state
C6_Witness ==
    /\ mode = "rk"
    /\ Uniform(prev_cells) /\ prev_cells[1][0] = One
    /\ solver_pc = "idle" /\ steps_done = 1
    /\ Len(butcher.b_s) = 3
    /\ mesh_cells = prev_cells

\* the integral of the field over the domain: every cell has the mass
\* matrix (dx dy / 4) M_ref
TotalIntegral(cs) ==
    RSumSeq([ c \in Interior |->
                RMul(RDiv(RMul(dx, dy), Num(4)),
                     RSum4([ i \in Dofs |->
                               RSum4([ j \in Dofs |-> RMul(M_ref(i, j), cs[c][j]) ]) ])) ])

\* C7: in the 1D advection problem (states 0 and 1, upwind flux, periodic
\* in X, velocity [1, 0]) the integral of the field over the domain is,
\* after any number of solver.step(dt) calls, what it was initially.
C7_IntegralConserved ==
    (mode = "rk" /\ FieldFinite(init_cells) /\ solver_pc = "idle") =>
        TotalIntegral(mesh_cells) = TotalIntegral(init_cells)

\* the Riemann problem of the test (0 left of x = 0.45, 1 right of it)
\* after two steps of RKDG2 at dt = 0.2 dx, the field having moved
C7_Witness ==
    /\ mode = "rk" /\ solver_pc = "idle" /\ steps_done = 2
    /\ butcher = RKDG2
    /\ dt = RMul(Frac(1, 5), dx)
    /\ \A c \in Interior : \A d \in Dofs :
         init_cells[c][d] = (IF 2 * c - 1 < NumCellsX THEN Zero ELSE One)
    /\ mesh_cells[1] # init_cells[1] /\ mesh_cells[2] # init_cells[2]

\* the entry a[k, j] of the tableau, j < k
ButcherA(tableau, k, j) == tableau.a_s[(k * (k - 1)) \div 2 + j + 2]

\* C8: for every stage k the trial state, before the limiter, is the base
\* state minus dt * sum over j < k of a[k, j] * residual[j]: every cached
\* residual weighted by its own coefficient.
C8_TrialState ==
    (mode = "rk" /\ stack # << >> /\ Top.pc = "limiter") =>
        \A c \in Interior : \A d \in Dofs :
            step_cells[c][d] =
                RSub(mesh_cells[c][d],
                     RMul(dt, RSumSeq([ n \in 1 .. Top.step |->
                                          RMul(ButcherA(butcher, Top.step, n - 1),
                                               ks[n - 1][c][d]) ])))

IsResidual(e) == e.ev = "residual"
\* the stages whose residual has been evaluated in the current step, in order
Evaluated == SelectSeq(trace, IsResidual)

\* C9: within one top-level call of RKDG.k the residuals of the stages are
\* evaluated in increasing stage order, each exactly once; no lower stage is
\* re-derived while a higher one is evaluated.
C9_EachStageOnce ==
    mode = "rk" =>
        /\ \A i \in 1 .. Len(Evaluated) : Evaluated[i].step = i - 1
        /\ (solver_pc = "k" /\ stack = << >>) => Len(Evaluated) = num_steps

\* the top-level call k(mesh, dt, t, 2) of a three-stage scheme has returned
C9_Witness ==
    /\ mode = "rk" /\ solver_pc = "k" /\ stack = << >>
    /\ num_steps = 3
    /\ Len(Evaluated) = 3
    /\ fluxes # ZeroField

\* C10: a stage residual holding a non-finite value ends the evaluation in
\* an error: no later stage is evaluated from it and no new state is
\* produced from it.
C10_NonFiniteIsTerminal ==
    mode = "rk" =>
        \A i \in 1 .. Len(trace) :
            (trace[i].ev = "residual" /\ ~ trace[i].finite) =>
                \A j \in i + 1 .. Len(trace) : trace[j].ev \notin { "trial", "update" }

\* the operations of stage s recorded so far in the current step
StageOps(s) ==
    LET InStage(e) ==
            /\ e.ev \in { "trial", "limiter", "update_ghosts", "pre_accumulate", "accumulate" }
            /\ e.step = s
    IN  SelectSeq(trace, InStage)

StageOrder ==
    << "trial", "limiter", "update_ghosts", "pre_accumulate",
       "accumulate", "accumulate", "accumulate", "accumulate" >>

\* C13: in every stage evaluation of RKDG.k the trial state is built, then
\* limited, then its ghosts are refreshed at the trial time
\* t + c_s[step] * dt, then pre_accumulate runs, and only then accumulate
\* runs, once per neighbour direction; update_ghosts is called exactly once
\* per stage evaluation and before the first accumulate of the stage.
C13_StageOrder ==
    mode = "rk" =>
        \A s \in 0 .. num_steps - 1 :
            LET ops == StageOps(s)
            IN  /\ Len(ops) <= Len(StageOrder)
                /\ \A i \in 1 .. Len(ops) : ops[i].ev = StageOrder[i]
                /\ \A i \in 1 .. Len(ops) :
                      (ops[i].ev = "update_ghosts" /\ solver_pc = "k") =>
                          ops[i].time = RAdd(t, RMul(butcher.c_s[s + 1], dt))
                /\ \A i, j \in 1 .. Len(ops) :
                      (i < j /\ ops[i].ev = "accumulate")
                          => ops[i].direction # ops[j].direction
                /\ (\E i \in 1 .. Len(trace) :
                        trace[i].ev = "residual" /\ trace[i].step = s)
                      => Len(ops) = Len(StageOrder)

\* the second stage of RKDG2Alpha(2/3) fully evaluated in the second time
\* step: the trial time differs from the time of the base state
C13_Witness ==
    /\ mode = "rk" /\ steps_done = 1 /\ solver_pc = "k" /\ stack = << >>
    /\ butcher = RKDG2Alpha(Frac(2, 3))
    /\ Len(StageOps(1)) = Len(StageOrder)
    /\ StageOps(1)[3].time = RAdd(t, RMul(Frac(2, 3), dt))
    /\ StageOps(1)[3].time # t
    /\ { StageOps(1)[i].direction : i \in 5 .. 8 } = { 0, 1, 2, 3 }

\* the residual of the stage whose limited trial state is cells, alone: its
\* face and volume terms accumulated from zero
ResidualAt(cells) ==
    LET faces == accumulate(accumulate(accumulate(accumulate(ZeroField,
                     cells, 0), cells, 1), cells, 2), cells, 3)
    IN  volume_and_solve(faces, cells)

\* C16: when RKDG.k(mesh, dt, t, step) returns, every slot _ks[..., j] with
\* j < step holds the residual of stage j (as that stage returned it) and
\* _fluxes holds the residual of stage step alone; every write to _ks goes
\* to a slot 0 .. num_steps - 2.
C16_StageStorage ==
    mode = "rk" =>
        /\ (stack # << >> /\ Top.pc = "return") =>
              /\ Len(Evaluated) = Top.step + 1
              /\ fluxes = ResidualAt(step_cells)
              /\ Evaluated[Top.step + 1].value = fluxes
              /\ \A j \in 0 .. Top.step - 1 : ks[j] = Evaluated[j + 1].value
        /\ \A i \in 1 .. Len(trace) :
              trace[i].ev = "store" => trace[i].slot \in 0 .. num_steps - 2

\* k(mesh, dt, t, 2) of the three-stage scheme returns with three different
\* finite non-zero residuals in _ks[..., 0], _ks[..., 1] and _fluxes
C16_Witness ==
    /\ mode = "rk" /\ stack # << >> /\ Top.pc = "return" /\ Top.step = 2
    /\ FieldFinite(ks[0]) /\ FieldFinite(ks[1]) /\ FieldFinite(fluxes)
    /\ ks[0] # ZeroField /\ ks[1] # ks[0] /\ fluxes # ks[1] /\ fluxes # ks[0]
    /\ fluxes # ZeroField

\* C17: RKDG2 is the explicit 2nd-order Runge-Kutta scheme with
\* alpha = 2/3: its Butcher tableau has a = [2/3], c = [2/3] and
\* b = [1 - 1/(2 alpha), 1/(2 alpha)] = [1/4, 3/4].
C17_RKDG2Tableau ==
    (mode = "rk" /\ butcher = RKDG2) =>
        /\ ButcherA(butcher, 1, 0) = Frac(2, 3)
        /\ NpIndex(butcher.c_s, 1) = Frac(2, 3)
        /\ butcher.b_s = << Frac(1, 4), Frac(3, 4) >>

\* C19: evaluating any stage with RKDG.k leaves the base state mesh.cells
\* unchanged: the subtraction, the limiter and the ghost refresh act on the
\* copy step_cells, so while and after k runs mesh.cells holds the values
\* it had before the call.
C19_BaseStateUnchanged ==
    (mode = "rk" /\ solver_pc = "k") => mesh_cells = prev_cells

\* the top-level call of k has returned in the second time step: the copy
\* differs from the base state in an interior cell and in a ghost cell,
\* and the limiter would have changed the base state
C19_Witness ==
    /\ mode = "rk" /\ solver_pc = "k" /\ stack = << >> /\ steps_done = 1
    /\ FieldFinite(mesh_cells)
    /\ \E c \in Interior : step_cells[c] # mesh_cells[c]
    /\ step_cells[0] # mesh_cells[0]
    /\ limiter(mesh_cells) # mesh_cells
    /\ mesh_cells = prev_cells

(***************************************************************************)
(* Claims on the helper functions of the tests (checked under SpecCalls).  *)
(***************************************************************************)
\* C11: CFL(cells, cfl_number) returns cfl_number * min_cell_size /
\* max_wave_speed, and on a degenerate mesh (minimum cell size zero) it
\* fails (returns NaN; a raise returns nothing) and never returns a finite
\* time step.
C11_CFL ==
    (mode = "calls" /\ op = "CFL") =>
        LET min_cell_size == np_min_surfaces(args.surfaces)
            max_wave_speed == One
        IN  /\ min_cell_size # Zero =>
                  ret = RDiv(RMul(args.CFL_value, min_cell_size), max_wave_speed)
            /\ min_cell_size = Zero => ~ IsFinite(ret)

C15_UpwindSharedFace ==
    (mode = "calls" /\ op = "upwind") =>
        /\ \A k \in 0 .. 1 :
             /\ ret[2][2 + k] = RNeg(ret[0][k])
             /\ ret[2][2 + k] = args.values_i[2 + k]
        /\ \A dir \in { 1, 3 } : \A d \in Dofs : ret[dir][d] = Zero

\* a face across which the field jumps, carrying a non-zero flux
C15_Witness ==
    /\ mode = "calls" /\ op = "upwind"
    /\ args.values_i[2] # args.values_i1[0]
    /\ args.values_i[3] # args.values_i[2]
    /\ args.values_i1[0] # Zero
    /\ ret[2][2] = One /\ ret[0][0] = Num(-1)
    /\ ret[2][3] = Frac(1, 2)

Mean4(v) == RMul(Frac(1, 4), RSum4(v))

\* after = theta * (before - mean) + mean holds for one theta in [0, 1]
ScaledAboutMean(before, after) ==
    LET mean == Mean4(before)
    IN  IF \A d \in Dofs : before[d] = mean
        THEN after = before
        ELSE LET d0 == CHOOSE d \in Dofs : before[d] # mean
                 theta == RDiv(RSub(after[d0], mean), RSub(before[d0], mean))
             IN  /\ RLe(Zero, theta) /\ RLe(theta, One)
                 /\ \A d \in Dofs :
                       after[d] = RAdd(RMul(theta, RSub(before[d], mean)), mean)

\* C20: the limiter preserves the cell average: for every cell (j, 0) the
\* mean of its four degrees of freedom after the limiter equals the mean
\* before it, the values becoming theta * (value - mean) + mean with
\* 0 <= theta <= 1; the cells with a y-index other than 0 are unchanged.
C20_LimiterPreservesMean ==
    (mode = "calls" /\ op = "limiter") =>
        \A q \in DOMAIN args.values :
            IF q[2] = 0
            THEN /\ Mean4(ret[q]) = Mean4(args.values[q])
                 /\ ScaledAboutMean(args.values[q], ret[q])
            ELSE ret[q] = args.values[q]

\* a cell overshooting both bounds is pulled back (0 < theta < 1) while the
\* cell above it, overshooting as well, is left as it is
C20_Witness ==
    /\ mode = "calls" /\ op = "limiter"
    /\ args.values[<< 0, 0 >>][0] = Frac(3, 2)
    /\ args.values[<< 0, 0 >>][3] = Frac(-1, 2)
    /\ ret[<< 0, 0 >>] # args.values[<< 0, 0 >>]
    /\ \A d \in Dofs : RLe(Zero, ret[<< 0, 0 >>][d]) /\ RLe(ret[<< 0, 0 >>][d], One)
    /\ \E d \in Dofs : ret[<< 0, 0 >>][d] # Mean4(args.values[<< 0, 0 >>])
    /\ limiter_cell(args.values[<< 0, 1 >>]) # args.values[<< 0, 1 >>]
    /\ ret[<< 0, 1 >>] = args.values[<< 0, 1 >>]

(***************************************************************************)
(* Claims on the time loop of test_twoscale (checked under SpecDriver).    *)
(***************************************************************************)
\* the smallest positive time step scheme.CFL may return
MinStep == Frac(1, 2)

\* C14: the time loop never calls solver.step with a NaN dt, and, provided
\* every computed dt is at least a positive constant, it terminates with
\* final_time < t <= final_time + (the last dt).
C14_DriverLoop ==
    /\ [](mode = "driver" /\ driver.pc = "step" => ~ IsNaN(driver.dt))
    /\ ( [](mode = "driver" /\ driver.pc = "assert" => RLe(MinStep, driver.dt))
            => <>( /\ driver.pc = "done"
                   /\ RLt(driver.final_time, driver.t)
                   /\ RLe(driver.t, RAdd(driver.final_time, driver.dt)) ) )

\* the loop has ended after more than one step, the last one overshooting
\* final_time by less than dt
C14_Witness ==
    /\ mode = "driver" /\ driver.pc = "done"
    /\ IsFinite(driver.t)
    /\ driver.t # driver.dt
    /\ RLt(driver.final_time, driver.t)
    /\ RLt(driver.t, RAdd(driver.final_time, driver.dt))

====
